---- MODULE Spec2Model ----
(***************************************************************************)
(* A model of the website scraper (src/task/scraper.py): the orchestration *)
(* of WebsiteScraper.scrape over the static fetch and the render path, the *)
(* interaction driver, the section segmenter and the section classifier.   *)
(*                                                                         *)
(* A parsed document is abstracted to what the segmenter reads of it: the  *)
(* landmark elements in document order, the parents of the h1/h2/h3        *)
(* elements in document order, and whether a <body> element exists.  An    *)
(* element is abstracted to its tag, the tokens of its class attribute,    *)
(* the further tokens of its serialized markup, the length of the text the *)
(* content extractor finds in it and the length of its serialized markup.  *)
(***************************************************************************)
EXTENDS Integers, Sequences, FiniteSets, TLC

VARIABLES
    \* ---- WebsiteScraper instance state (scraper.py 28-44) ----
    visited_urls,        \* self.visited_urls
    interactions,        \* self.interactions: [clicks, scrolls, pages]
    errors,              \* self.errors: sequence of [phase]
    \* ---- locals of scrape (46-116) ----
    pc,                  \* position of the coroutine
    static_html,         \* result of _static_fetch: "none" before, "None", "empty" or a document
    sections,            \* local `sections` of scrape
    js_result,           \* what _js_scrape handed back: "not_called", "None", "raised" or [sections]
    envelope,            \* the returned dict, "none" before the return
    \* ---- environment and locals of the render path (348-496) ----
    playwright_available,\* PLAYWRIGHT_AVAILABLE (14-18)
    playwright,          \* the async_playwright() context: "none", "started", "stopped"
    browser,             \* the launched browser: "none", "open", "closed"
    lm_i,                \* index into load_more_selectors
    scroll_i,            \* the scroll loop's i, 0-based
    next_i,              \* index into next_links
    js_sections,         \* local `sections` of _js_scrape
    \* ---- observations of the run (history, not program state) ----
    static_sections,     \* the sections the static path produced
    failed,              \* the interaction steps that failed so far
    attempted,           \* the steps attempted after navigation
    n_fetch,             \* number of calls of _static_fetch
    n_js,                \* number of calls of _js_scrape
    \* ---- a pure function under test: its input, its result ----
    fn_pc, fn_in, fn_out

scrape_vars == <<visited_urls, interactions, errors, pc, static_html, sections,
                 js_result, envelope, playwright_available, playwright, browser,
                 lm_i, scroll_i, next_i, js_sections, static_sections, failed,
                 attempted, n_fetch, n_js>>
fn_vars == <<fn_pc, fn_in, fn_out>>
vars == <<scrape_vars, fn_vars>>

----------------------------------------------------------------------------
(* Bounds of the model *)

\* longest landmark list of a document drawn for the segmenter
MaxLandmarks == 2
\* longest list of h1/h2/h3 elements of a document drawn for the segmenter
MaxHeadings == 2

\* how many kinds of steps can fail in one scrape
MaxFaults == 2
\* how far a drawn size lies above the cap it is measured against
Excess == 1

(* Program constants *)

ScoreThreshold == 500
TextCap == 5000
RawCap == 5000
MarkerLen == 3
MaxPages == 3
ScrollIterations == 3
NumLoadMore == 5
NumNextLinks == 4
HeadingCap == 10
LinkCap == 50
ImageCap == 20
ListCap == 10
TableCap == 5
LabelCap == 100
LabelHeadingCap == 50
LinkTextCap == 100
DefaultLabelLen == 7

----------------------------------------------------------------------------
(* Strings: str.lower() and the substring test `needle in haystack`, on    *)
(* the tokens that occur in the modelled markup.                           *)

Lower(t) ==
    CASE t = "Banner" -> "banner"
      [] t = "FAQ" -> "faq"
      [] t = "Hero-Unit" -> "hero-unit"
      [] OTHER -> t

\* the signal words that are substrings of the (lower-case) token t
SubstringsOf(t) ==
    CASE t = "hero-unit" -> {"hero", "hero-unit"}
      [] t = "cookie-banner" -> {"cookie", "banner", "cookie-banner"}
      [] OTHER -> {t}

\* needle in " ".join(tokens).lower()
ContainsLower(tokens, needle) ==
    \E t \in tokens : needle \in SubstringsOf(Lower(t))

\* str(element): the class attribute is part of the serialized markup
Markup(e) == e.cls \cup e.words

Min(a, b) == IF a < b THEN a ELSE b

RECURSIVE SumText(_)
SumText(ss) == IF ss = <<>> THEN 0 ELSE Head(ss).text + SumText(Tail(ss))

----------------------------------------------------------------------------
(* _extract_section_from_element (216-346) *)

\* tag-based default (222-231)
TagType(tag) ==
    CASE tag \in {"header", "nav"} -> "nav"
      [] tag = "footer" -> "footer"
      [] tag \in {"section", "article", "main"} -> "section"
      [] OTHER -> "unknown"

\* The class-signal chain read as three independent ifs: the last match wins.
SectionTypeLastMatch(e) ==
    IF ContainsLower(e.cls, "pricing") THEN "pricing"
    ELSE IF ContainsLower(e.cls, "faq") THEN "faq"
    ELSE IF ContainsLower(e.cls, "hero") THEN "hero"
    ELSE TagType(e.tag)

\* tag default, then the if/elif/elif chain on the class attribute (233-241)
SectionType(e) ==
    IF ContainsLower(e.cls, "hero") THEN "hero"
    ELSE IF ContainsLower(e.cls, "faq") THEN "faq"
    ELSE IF ContainsLower(e.cls, "pricing") THEN "pricing"
    ELSE TagType(e.tag)

\* label (316-322, 334): first heading, else the first words of the text
Label(e) ==
    IF e.heading # "" THEN e.heading
    ELSE IF e.textLen > 0 THEN "first-words"
    ELSE "Section"

\* The slice that keeps the whole list.
SliceAll(s, n) == s

\* s[:n] on a list
Slice(s, n) == SubSeq(s, 1, Min(Len(s), n))

\* len(label[:100]) (316-322, 334): the first heading cut at 50, else the first
\* seven words of the text, else "Section"
LabelLen(e) ==
    Min(IF e.headings # <<>> THEN Min(Head(e.headings), LabelHeadingCap)
        ELSE IF e.textLen > 0 THEN e.firstWords
        ELSE DefaultLabelLen,
        LabelCap)

\* the link records (266-277), each by len(link_text[:100])
LinkTexts(e) == [i \in DOMAIN e.links |-> Min(e.links[i], LinkTextCap)]

\* the lists of the content record (336-343); a heading and a link stand by
\* the length of their text
Content(e) ==
    [headings |-> Slice(e.headings, HeadingCap),
     links |-> Slice(LinkTexts(e), LinkCap),
     images |-> Slice(e.images, ImageCap),
     lists |-> Slice(e.lists, ListCap),
     tables |-> Slice(e.tables, TableCap)]

\* raw_html and truncated (324-329)
RawHtml(e) ==
    [markup |-> e,
     len |-> IF e.htmlLen > RawCap THEN RawCap + MarkerLen ELSE e.htmlLen]

ExtractSectionFromElement(e, section_id) ==
    [id |-> <<SectionType(e), section_id>>,
     type |-> SectionType(e),
     label |-> Label(e),
     labelLen |-> LabelLen(e),
     text |-> Min(e.textLen, TextCap),
     content |-> Content(e),
     rawHtml |-> RawHtml(e),
     truncated |-> e.htmlLen > RawCap]

----------------------------------------------------------------------------
(* _extract_sections (165-214) *)

\* the denylist of the specification and of noise_selectors (171-176)
DenyWords == {"cookie", "banner", "modal", "popup", "overlay"}
\* the words the landmark loop tests (198)
LandmarkNoise == {"cookie", "banner", "modal", "popup"}
\* the words the heading loop tests (187)
HeadingNoise == {"cookie", "banner", "modal"}

\* any(noise in str(element).lower() for noise in words)
IsNoise(e, words) == \E n \in words : ContainsLower(Markup(e), n)

\* The loop with the counter advanced for every region, a skipped one included.
RECURSIVE SectionLoopCountAll(_, _, _, _)
SectionLoopCountAll(regions, words, acc, section_id_counter) ==
    IF regions = <<>> THEN acc
    ELSE IF IsNoise(Head(regions), words)
         THEN SectionLoopCountAll(Tail(regions), words, acc, section_id_counter + 1)
         ELSE SectionLoopCountAll(Tail(regions), words,
                                  Append(acc, ExtractSectionFromElement(Head(regions), section_id_counter)),
                                  section_id_counter + 1)

\* One of the two loops (184-194, 196-204): the regions in order, a noise
\* region skipped, the counter advanced with every section appended.
RECURSIVE SectionLoop(_, _, _, _)
SectionLoop(regions, words, acc, section_id_counter) ==
    IF regions = <<>> THEN acc
    ELSE IF IsNoise(Head(regions), words)
         THEN SectionLoop(Tail(regions), words, acc, section_id_counter)
         ELSE SectionLoop(Tail(regions), words,
                          Append(acc, ExtractSectionFromElement(Head(regions), section_id_counter)),
                          section_id_counter + 1)

RECURSIVE WordsOf(_)
WordsOf(es) == IF es = <<>> THEN {} ELSE Markup(Head(es)) \cup WordsOf(Tail(es))

RECURSIVE TextOf(_)
TextOf(es) == IF es = <<>> THEN 0 ELSE Head(es).textLen + TextOf(Tail(es))

RECURSIVE HeadingsOf(_)
HeadingsOf(es) == IF es = <<>> THEN <<>> ELSE Head(es).headings \o HeadingsOf(Tail(es))

\* The <body> element: its markup and its text hold those of its descendants.
Body(doc) ==
    [tag |-> "body", cls |-> {},
     words |-> WordsOf(doc.landmarks) \cup WordsOf(doc.headings),
     heading |-> IF doc.headings # <<>> THEN "Welcome" ELSE "",
     textLen |-> doc.loose + TextOf(doc.landmarks) + TextOf(doc.headings),
     htmlLen |-> 100,
     headings |-> HeadingsOf(doc.landmarks) \o HeadingsOf(doc.headings),
     firstWords |-> Min(doc.loose + TextOf(doc.landmarks) + TextOf(doc.headings), 40),
     links |-> <<>>, images |-> <<>>, lists |-> <<>>, tables |-> <<>>]

\* section_id_counter when a loop is left: advanced once for each append (194, 204)
RECURSIVE CounterAfter(_, _, _)
CounterAfter(regions, words, section_id_counter) ==
    IF regions = <<>> THEN section_id_counter
    ELSE IF IsNoise(Head(regions), words)
         THEN CounterAfter(Tail(regions), words, section_id_counter)
         ELSE CounterAfter(Tail(regions), words, section_id_counter + 1)

\* the counter after the branch on `landmarks`
TierCounter(doc) ==
    IF doc.landmarks = <<>>
    THEN CounterAfter(doc.headings, HeadingNoise, 0)
    ELSE CounterAfter(doc.landmarks, LandmarkNoise, 0)

\* the branch on `landmarks` (181-204)
TierSections(doc) ==
    IF doc.landmarks = <<>>
    THEN SectionLoop(doc.headings, HeadingNoise, <<>>, 0)
    ELSE SectionLoop(doc.landmarks, LandmarkNoise, <<>>, 0)

\* the whole function, with the body fallback (206-214)
ExtractSections(doc) ==
    IF TierSections(doc) # <<>> THEN TierSections(doc)
    ELSE IF doc.hasBody THEN <<ExtractSectionFromElement(Body(doc), TierCounter(doc))>>
    ELSE <<>>

----------------------------------------------------------------------------
(* Documents and markup *)

\* an element of short markup with at most one heading, of seven characters,
\* and no link, image, list or table
Element(tag, cls, words, heading, textLen) ==
    [tag |-> tag, cls |-> cls, words |-> words, heading |-> heading,
     textLen |-> textLen, htmlLen |-> 100,
     headings |-> IF heading = "" THEN <<>> ELSE <<7>>,
     firstWords |-> Min(textLen, 40),
     links |-> <<>>, images |-> <<>>, lists |-> <<>>, tables |-> <<>>]

Doc(landmarks, headings, hasBody, loose) ==
    [landmarks |-> landmarks, headings |-> headings, hasBody |-> hasBody,
     loose |-> loose]

\* markup with no element at all
EmptyDoc == Doc(<<>>, <<>>, FALSE, 0)

SeqsUpTo(S, n) == UNION {[1..k -> S] : k \in 0..n}

\* BeautifulSoup(markup, 'html.parser') (56): the tree holds what the markup holds
ParseHtmlParser(markup) == markup

\* BeautifulSoup(markup, 'lxml') (384): lxml wraps any element in <html><body>
ParseLxml(markup) ==
    IF markup = EmptyDoc THEN markup ELSE [markup EXCEPT !.hasBody = TRUE]

----------------------------------------------------------------------------
(* The inputs of one scrape *)

SeedUrl == "https://x.test/"

Plain(tag, textLen) == Element(tag, {}, {}, "", textLen)

\* the pages a static fetch can bring: markup without any element the segmenter
\* reads, landmarks below, at and above the threshold, a landmark that is
\* noise, headings without landmarks, a bare body
StaticDocs ==
    {Doc(<<>>, <<>>, FALSE, 0),
     Doc(<<Plain("section", 200), Plain("section", 200)>>, <<>>, TRUE, 0),
     Doc(<<Plain("section", 200), Plain("section", 300)>>, <<>>, TRUE, 0),
     Doc(<<Plain("main", 600)>>, <<>>, TRUE, 0),
     Doc(<<Element("section", {"cookie-banner"}, {}, "", 300)>>, <<>>, FALSE, 0),
     Doc(<<Element("section", {"cookie-banner"}, {}, "", 300)>>, <<>>, TRUE, 600),
     Doc(<<>>, <<Element("div", {}, {}, "Welcome", 200)>>, TRUE, 0),
     Doc(<<>>, <<>>, TRUE, 600),
     Doc(<<Element("section", {"cookie-banner"}, {}, "", 300), Plain("footer", 600)>>, <<>>, TRUE, 0)}

\* what page.content() can return: the serialized document, or nothing once a
\* script has removed the root element
RenderMarkups ==
    {EmptyDoc,
     Doc(<<>>, <<>>, TRUE, 0),
     Doc(<<Element("main", {}, {}, "", 600)>>, <<>>, TRUE, 0),
     Doc(<<Element("nav", {}, {}, "", 200), Element("section", {"hero"}, {}, "Title", 300)>>,
         <<>>, FALSE, 0)}

\* the href values of a "next" link
Hrefs == {"", "/", "/page/2", "https://x.test/page/2"}

\* urljoin(self.url, href) (474)
UrlJoin(base, href) ==
    CASE href = "" -> base
      [] href = "/" -> "https://x.test/"
      [] href = "/page/2" -> "https://x.test/page/2"
      [] OTHER -> href

TabSelector == "[role=\"tab\"] or .tab"

LoadMoreSelectors ==
    <<"button:has-text(\"Load more\")", "button:has-text(\"Show more\")",
      "a:has-text(\"Load more\")", "[class*=\"load-more\"]", "[class*=\"show-more\"]">>

ErrorRecord(phase) == [phase |-> phase]

NoMarkup == Element("", {}, {}, "", 0)

NextLinks ==
    <<"a:has-text(\"Next\")", "a:has-text(\"next\")", "[class*=\"next\"]",
      "[class*=\"pagination\"] a:last-child">>

----------------------------------------------------------------------------
(* WebsiteScraper.__init__ (28-44) and the start of scrape *)

NoHtml(kind) == [kind |-> kind, doc |-> EmptyDoc]
NoResult(kind) == [kind |-> kind, sections |-> <<>>]
NoEnvelope ==
    [kind |-> "none", sections |-> <<>>,
     interactions |-> [clicks |-> <<>>, scrolls |-> 0, pages |-> <<>>],
     errors |-> <<>>]

InitScraper ==
    /\ visited_urls = {}
    /\ interactions = [clicks |-> <<>>, scrolls |-> 0, pages |-> <<>>]
    /\ errors = <<>>
    /\ pc = "start"
    /\ static_html = NoHtml("none")
    /\ sections = <<>>
    /\ js_result = NoResult("not_called")
    /\ envelope = NoEnvelope
    /\ playwright = "none"
    /\ browser = "none"
    /\ lm_i = 0
    /\ scroll_i = 0
    /\ next_i = 0
    /\ js_sections = <<>>
    /\ static_sections = <<>>
    /\ failed = {}
    /\ attempted = {}
    /\ n_fetch = 0
    /\ n_js = 0

FnIdle == fn_pc = "idle" /\ fn_in = <<>> /\ fn_out = <<>>

Init ==
    /\ InitScraper
    /\ playwright_available \in BOOLEAN
    /\ FnIdle

----------------------------------------------------------------------------
(* _static_fetch (118-132) *)

StaticFetch ==
    /\ pc = "start"
    /\ pc' = "fetched"
    /\ n_fetch' = n_fetch + 1
    /\ \/ \* requests.get or raise_for_status raises
          /\ errors' = Append(errors, ErrorRecord("fetch"))
          /\ static_html' = NoHtml("None")
       \/ \* a response with an empty body
          /\ static_html' = NoHtml("empty")
          /\ UNCHANGED errors
       \/ \E d \in StaticDocs :
          /\ static_html' = [kind |-> "html", doc |-> d]
          /\ UNCHANGED errors
    /\ UNCHANGED <<visited_urls, interactions, sections, js_result, envelope,
                   playwright_available, playwright, browser, lm_i, scroll_i,
                   next_i, js_sections, static_sections, failed, attempted, n_js>>
    /\ UNCHANGED fn_vars

----------------------------------------------------------------------------
(* scrape, from the static result to the decision to render (53-64, 75-78) *)

\* the threshold test taken as "at most 500"
NeedsRenderAtMost(total_text) == total_text <= ScoreThreshold

\* if total_text < 500 (62)
NeedsRender(total_text) == total_text < ScoreThreshold

ScrapeStatic ==
    /\ pc = "fetched"
    /\ LET truthy == static_html.kind = "html"
           found == IF truthy
                    THEN ExtractSections(ParseHtmlParser(static_html.doc))
                    ELSE <<>>
           render == ~truthy \/ NeedsRender(SumText(found))
       IN /\ sections' = found
          /\ static_sections' = found
          /\ pc' = IF render THEN "js_start" ELSE "finish"
    /\ UNCHANGED <<visited_urls, interactions, errors, static_html, js_result,
                   envelope, playwright_available, playwright, browser, lm_i,
                   scroll_i, next_i, js_sections, failed, attempted, n_fetch,
                   n_js>>
    /\ UNCHANGED fn_vars

----------------------------------------------------------------------------
(* _js_scrape (348-398) *)

js_frame == <<static_html, sections, envelope, playwright_available,
              static_sections, n_fetch>>

\* the step can fail in this run
CanFail(step) == Cardinality(failed \cup {step}) <= MaxFaults

\* an exception leaves the `async with` block (357): the context manager stops
\* the driver, and the exception reaches the caller
Propagate(step) ==
    /\ CanFail(step)
    /\ playwright' = "stopped"
    /\ js_result' = NoResult("raised")
    /\ failed' = failed \cup {step}
    /\ pc' = "after_js"

\* except Exception as e: await browser.close(); raise e (396-398)
CloseAndRaise(step) ==
    /\ browser' = "closed"
    /\ Propagate(step)

JsStart ==
    /\ pc = "js_start"
    /\ n_js' = n_js + 1
    /\ \/ \* if not PLAYWRIGHT_AVAILABLE (350-355)
          /\ ~playwright_available
          /\ errors' = Append(errors, ErrorRecord("render"))
          /\ js_result' = NoResult("None")
          /\ pc' = "after_js"
          /\ UNCHANGED <<playwright, failed>>
       \/ \* async_playwright() starts the driver (357)
          /\ playwright_available
          /\ playwright' = "started"
          /\ pc' = "launch"
          /\ UNCHANGED <<errors, js_result, failed>>
       \/ \* the driver does not start
          /\ playwright_available
          /\ js_result' = NoResult("raised")
          /\ CanFail("start")
          /\ failed' = failed \cup {"start"}
          /\ pc' = "after_js"
          /\ UNCHANGED <<errors, playwright>>
    /\ UNCHANGED <<visited_urls, interactions, browser, lm_i, scroll_i, next_i,
                   js_sections, attempted>>
    /\ UNCHANGED js_frame
    /\ UNCHANGED fn_vars

\* browser = await p.chromium.launch(headless=True) (358)
JsLaunch ==
    /\ pc = "launch"
    /\ \/ /\ browser' = "open"
          /\ pc' = "new_context"
          /\ UNCHANGED <<playwright, js_result, failed>>
       \/ /\ Propagate("launch")
          /\ UNCHANGED browser
    /\ UNCHANGED <<visited_urls, interactions, errors, lm_i, scroll_i, next_i,
                   js_sections, attempted>>
    /\ UNCHANGED <<js_frame, n_js>>
    /\ UNCHANGED fn_vars

\* context = await browser.new_context(...) (359-362), outside the try
JsNewContext ==
    /\ pc = "new_context"
    /\ \/ /\ pc' = "new_page"
          /\ UNCHANGED <<playwright, js_result, failed>>
       \/ Propagate("new_context")
    /\ UNCHANGED <<visited_urls, interactions, errors, browser, lm_i, scroll_i,
                   next_i, js_sections, attempted>>
    /\ UNCHANGED <<js_frame, n_js>>
    /\ UNCHANGED fn_vars

\* page = await context.new_page() (363), outside the try
JsNewPage ==
    /\ pc = "new_page"
    /\ \/ /\ pc' = "goto"
          /\ UNCHANGED <<playwright, js_result, failed>>
       \/ Propagate("new_page")
    /\ UNCHANGED <<visited_urls, interactions, errors, browser, lm_i, scroll_i,
                   next_i, js_sections, attempted>>
    /\ UNCHANGED <<js_frame, n_js>>
    /\ UNCHANGED fn_vars

\* await page.goto(...), then the seed is recorded (367-369)
JsGoto ==
    /\ pc = "goto"
    /\ \/ /\ visited_urls' = visited_urls \cup {SeedUrl}
          /\ interactions' = [interactions EXCEPT !.pages = Append(@, SeedUrl)]
          /\ pc' = "settle"
          /\ UNCHANGED <<playwright, browser, js_result, failed>>
       \/ /\ CloseAndRaise("goto")
          /\ UNCHANGED <<visited_urls, interactions>>
    /\ UNCHANGED <<errors, lm_i, scroll_i, next_i, js_sections, attempted>>
    /\ UNCHANGED <<js_frame, n_js>>
    /\ UNCHANGED fn_vars

\* await page.wait_for_timeout(2000) (372)
JsSettle ==
    /\ pc = "settle"
    /\ \/ /\ pc' = "tabs"
          /\ UNCHANGED <<playwright, browser, js_result, failed>>
       \/ CloseAndRaise("settle")
    /\ UNCHANGED <<visited_urls, interactions, errors, lm_i, scroll_i, next_i,
                   js_sections, attempted>>
    /\ UNCHANGED <<js_frame, n_js>>
    /\ UNCHANGED fn_vars

----------------------------------------------------------------------------
(* _handle_interactions (400-438) *)

drv_frame == <<playwright, browser, js_result, js_sections>>

\* the tab click's handler taken to record the failure
TabClickExceptRecorded(errs) == Append(errs, ErrorRecord("interaction"))

\* except: pass (411-412)
TabClickExcept(errs) == errs

\* tabs = await page.query_selector_all(...) (404-405)
TabQuery ==
    /\ pc = "tabs"
    /\ attempted' = attempted \cup {"tabs"}
    /\ \/ \* the query raises: the outer handler (434-438) ends the function
          /\ errors' = Append(errors, ErrorRecord("interaction"))
          /\ CanFail("tab_query")
          /\ failed' = failed \cup {"tab_query"}
          /\ pc' = "scroll"
          /\ UNCHANGED lm_i
       \/ \* no tab on the page
          /\ pc' = "load_more"
          /\ lm_i' = 1
          /\ UNCHANGED <<errors, failed>>
       \/ \* at least one tab
          /\ pc' = "tab_click"
          /\ UNCHANGED <<errors, failed, lm_i>>
    /\ UNCHANGED <<visited_urls, interactions, scroll_i, next_i>>
    /\ UNCHANGED drv_frame
    /\ UNCHANGED <<js_frame, n_js>>
    /\ UNCHANGED fn_vars

\* await tabs[0].click(); clicks.append(...); await page.wait_for_timeout(1000) (407-412)
TabClick ==
    /\ pc = "tab_click"
    /\ pc' = "load_more"
    /\ lm_i' = 1
    /\ \/ \* the click raises
          /\ CanFail("tab_click")
          /\ failed' = failed \cup {"tab_click"}
          /\ errors' = TabClickExcept(errors)
          /\ UNCHANGED interactions
       \/ \* the click succeeds and the wait raises
          /\ interactions' = [interactions EXCEPT !.clicks = Append(@, TabSelector)]
          /\ CanFail("tab_click")
          /\ failed' = failed \cup {"tab_click"}
          /\ errors' = TabClickExcept(errors)
       \/ \* both succeed
          /\ interactions' = [interactions EXCEPT !.clicks = Append(@, TabSelector)]
          /\ UNCHANGED <<failed, errors>>
    /\ UNCHANGED <<visited_urls, scroll_i, next_i, attempted>>
    /\ UNCHANGED drv_frame
    /\ UNCHANGED <<js_frame, n_js>>
    /\ UNCHANGED fn_vars

\* `continue` (432), or the fall through of an absent button: the next
\* selector, or the end of the function after the last one
LoadMoreContinue ==
    IF lm_i = NumLoadMore
    THEN pc' = "scroll" /\ lm_i' = lm_i
    ELSE pc' = pc /\ lm_i' = lm_i + 1

\* one iteration of the loop over load_more_selectors (423-432)
LoadMoreTry ==
    /\ pc = "load_more"
    /\ attempted' = attempted \cup {"load_more"}
    /\ \/ \* the query raises
          /\ CanFail("load_more")
          /\ failed' = failed \cup {"load_more"}
          /\ LoadMoreContinue
          /\ UNCHANGED interactions
       \/ \* no such button
          /\ LoadMoreContinue
          /\ UNCHANGED <<interactions, failed>>
       \/ \* the click raises
          /\ CanFail("load_more")
          /\ failed' = failed \cup {"load_more"}
          /\ LoadMoreContinue
          /\ UNCHANGED interactions
       \/ \* the click succeeds and is recorded, the wait raises before the break
          /\ interactions' = [interactions EXCEPT !.clicks = Append(@, LoadMoreSelectors[lm_i])]
          /\ CanFail("load_more_wait")
          /\ failed' = failed \cup {"load_more_wait"}
          /\ LoadMoreContinue
       \/ \* the click succeeds, the wait returns: break
          /\ interactions' = [interactions EXCEPT !.clicks = Append(@, LoadMoreSelectors[lm_i])]
          /\ pc' = "scroll"
          /\ UNCHANGED <<failed, lm_i>>
    /\ UNCHANGED <<visited_urls, errors, scroll_i, next_i>>
    /\ UNCHANGED drv_frame
    /\ UNCHANGED <<js_frame, n_js>>
    /\ UNCHANGED fn_vars

----------------------------------------------------------------------------
(* _handle_scroll_and_pagination (440-496) *)

\* next_url not in self.visited_urls and len(self.visited_urls) < 3 (475)
CanFollow(next_url) ==
    next_url \notin visited_urls /\ Cardinality(visited_urls) < MaxPages

\* the block after the loop (484-490)
ExtraScrolls(inter) ==
    IF Len(inter.pages) < MaxPages /\ inter.scrolls < ScrollIterations
    THEN [inter EXCEPT !.scrolls = @ + (ScrollIterations - @)]
    ELSE inter

\* the end of one iteration of `for i in range(3)`
ScrollAdvance(inter) ==
    IF scroll_i + 1 = ScrollIterations
    THEN /\ interactions' = ExtraScrolls(inter)
         /\ pc' = "content"
         /\ scroll_i' = scroll_i + 1
    ELSE /\ interactions' = inter
         /\ pc' = "scroll"
         /\ scroll_i' = scroll_i + 1

\* one scroll of the loop (447-459)
ScrollStep ==
    /\ pc = "scroll"
    /\ attempted' = attempted \cup {"scroll"}
    /\ \/ \* the scroll evaluation raises: the outer handler (492-496)
          /\ errors' = Append(errors, ErrorRecord("scroll"))
          /\ CanFail("scroll_eval")
          /\ failed' = failed \cup {"scroll_eval"}
          /\ pc' = "content"
          /\ UNCHANGED <<interactions, scroll_i, next_i>>
       \/ \* the scroll is counted, a wait or a height evaluation raises
          /\ interactions' = [interactions EXCEPT !.scrolls = @ + 1]
          /\ errors' = Append(errors, ErrorRecord("scroll"))
          /\ CanFail("scroll_eval")
          /\ failed' = failed \cup {"scroll_eval"}
          /\ pc' = "content"
          /\ UNCHANGED <<scroll_i, next_i>>
       \/ \* the height did not change in the first iteration: pagination
          /\ scroll_i = 0
          /\ interactions' = [interactions EXCEPT !.scrolls = @ + 1]
          /\ pc' = "pagination"
          /\ next_i' = 1
          /\ UNCHANGED <<errors, failed, scroll_i>>
       \/ \* the height changed, or a later iteration
          /\ ScrollAdvance([interactions EXCEPT !.scrolls = @ + 1])
          /\ UNCHANGED <<errors, failed, next_i>>
    /\ UNCHANGED <<visited_urls, lm_i>>
    /\ UNCHANGED drv_frame
    /\ UNCHANGED <<js_frame, n_js>>
    /\ UNCHANGED fn_vars

\* `continue` (482), or the fall through of the ifs: the next selector, or the
\* next iteration of the scroll loop after the last one
PaginationContinue ==
    IF next_i = NumNextLinks
    THEN ScrollAdvance(interactions) /\ next_i' = next_i
    ELSE pc' = pc /\ next_i' = next_i + 1 /\ UNCHANGED <<interactions, scroll_i>>

\* one iteration of the loop over next_links (468-482)
PaginationTry ==
    /\ pc = "pagination"
    /\ \/ \* the query or get_attribute raises
          /\ CanFail("pagination")
          /\ failed' = failed \cup {"pagination"}
          /\ PaginationContinue
          /\ UNCHANGED visited_urls
       \/ \* no such link, or a link without href
          /\ PaginationContinue
          /\ UNCHANGED <<failed, visited_urls>>
       \/ \E href \in Hrefs \ {""} :
          LET next_url == UrlJoin(SeedUrl, href) IN
          \/ \* already visited, or the depth is reached
             /\ ~CanFollow(next_url)
             /\ PaginationContinue
             /\ UNCHANGED <<failed, visited_urls>>
          \/ \* the click raises
             /\ CanFollow(next_url)
             /\ CanFail("pagination")
             /\ failed' = failed \cup {"pagination"}
             /\ PaginationContinue
             /\ UNCHANGED visited_urls
          \/ \* the click succeeds, wait_for_selector raises
             /\ CanFollow(next_url)
             /\ CanFail("pagination")
             /\ failed' = failed \cup {"pagination"}
             /\ PaginationContinue
             /\ UNCHANGED visited_urls
          \/ \* the page is followed and recorded: break
             /\ CanFollow(next_url)
             /\ visited_urls' = visited_urls \cup {next_url}
             /\ ScrollAdvance([interactions EXCEPT !.pages = Append(@, next_url)])
             /\ UNCHANGED <<failed, next_i>>
    /\ UNCHANGED <<errors, lm_i, attempted>>
    /\ UNCHANGED drv_frame
    /\ UNCHANGED <<js_frame, n_js>>
    /\ UNCHANGED fn_vars

----------------------------------------------------------------------------
(* _js_scrape, after the interaction driver (380-398) *)

\* html = await page.content(); parse; _extract_sections (381-386)
JsContent ==
    /\ pc = "content"
    /\ attempted' = attempted \cup {"content"}
    /\ \/ \E m \in RenderMarkups :
          /\ js_sections' = ExtractSections(ParseLxml(m))
          /\ pc' = "close"
          /\ UNCHANGED <<playwright, browser, js_result, failed>>
       \/ /\ CloseAndRaise("content")
          /\ UNCHANGED js_sections
    /\ UNCHANGED <<visited_urls, interactions, errors, lm_i, scroll_i, next_i>>
    /\ UNCHANGED <<js_frame, n_js>>
    /\ UNCHANGED fn_vars

\* await browser.close(); return {...} (388-394)
JsClose ==
    /\ pc = "close"
    /\ \/ /\ browser' = "closed"
          /\ playwright' = "stopped"
          /\ js_result' = [kind |-> "dict", sections |-> js_sections]
          /\ pc' = "after_js"
          /\ UNCHANGED failed
       \/ CloseAndRaise("close")
    /\ UNCHANGED <<visited_urls, interactions, errors, lm_i, scroll_i, next_i,
                   js_sections, attempted>>
    /\ UNCHANGED <<js_frame, n_js>>
    /\ UNCHANGED fn_vars

----------------------------------------------------------------------------
(* scrape, after the render path (65-116) *)

\* the call of _js_scrape without a handler: the exception leaves scrape
AfterJsNoHandler(kind) == IF kind = "raised" THEN "raised" ELSE "finish"

\* try/except Exception around the call (63-73, 77-88): control reaches line 90
AfterJs(kind) == "finish"

\* the render result taken whenever there is one
MergeAlways(result, current) ==
    IF result.kind = "dict" THEN result.sections ELSE current

\* if js_result and js_result["sections"]: sections = js_result["sections"] (65-66)
MergeAfterStatic(result, current) ==
    IF result.kind = "dict" /\ result.sections # <<>> THEN result.sections ELSE current

ScrapeAfterJs ==
    /\ pc = "after_js"
    /\ pc' = AfterJs(js_result.kind)
    /\ IF static_html.kind = "html"
       THEN \* 63-74
            /\ sections' = MergeAfterStatic(js_result, sections)
            /\ errors' = IF js_result.kind = "raised"
                         THEN Append(errors, ErrorRecord("render"))
                         ELSE errors
       ELSE \* 77-88
            /\ sections' = IF js_result.kind = "dict" THEN js_result.sections
                           ELSE IF js_result.kind = "raised" THEN <<>>
                           ELSE sections
            /\ errors' = IF js_result.kind = "raised"
                         THEN Append(errors, ErrorRecord("render"))
                         ELSE errors
    /\ UNCHANGED <<visited_urls, interactions, static_html, js_result, envelope,
                   playwright_available, playwright, browser, lm_i, scroll_i,
                   next_i, js_sections, static_sections, failed, attempted,
                   n_fetch, n_js>>
    /\ UNCHANGED fn_vars

\* the sentinel section (92-107)
Sentinel ==
    [id |-> <<"empty", 0>>,
     type |-> "unknown",
     label |-> "No content found",
     labelLen |-> 16,
     text |-> 0,
     content |-> [headings |-> <<>>, links |-> <<>>, images |-> <<>>,
                  lists |-> <<>>, tables |-> <<>>],
     rawHtml |-> [markup |-> NoMarkup, len |-> 0],
     truncated |-> FALSE]

\* the list returned as it is
EnsureSectionsAsIs(ss) == ss

\* if not sections: sections = [sentinel] (91-107)
EnsureSections(ss) == IF ss = <<>> THEN <<Sentinel>> ELSE ss

\* the return (109-116)
ScrapeReturn ==
    /\ pc = "finish"
    /\ pc' = "returned"
    /\ sections' = EnsureSections(sections)
    /\ envelope' = [kind |-> "dict",
                    sections |-> EnsureSections(sections),
                    interactions |-> interactions,
                    errors |-> errors]
    /\ UNCHANGED <<visited_urls, interactions, errors, static_html, js_result,
                   playwright_available, playwright, browser, lm_i, scroll_i,
                   next_i, js_sections, static_sections, failed, attempted,
                   n_fetch, n_js>>
    /\ UNCHANGED fn_vars

----------------------------------------------------------------------------
(* One scrape *)

Next ==
    \/ StaticFetch
    \/ ScrapeStatic
    \/ JsStart
    \/ JsLaunch
    \/ JsNewContext
    \/ JsNewPage
    \/ JsGoto
    \/ JsSettle
    \/ TabQuery
    \/ TabClick
    \/ LoadMoreTry
    \/ ScrollStep
    \/ PaginationTry
    \/ JsContent
    \/ JsClose
    \/ ScrapeAfterJs
    \/ ScrapeReturn

Spec == Init /\ [][Next]_vars

----------------------------------------------------------------------------
(* The segmenter alone: _extract_sections on a drawn document *)

LandmarkKinds ==
    {Plain("section", 200),
     Plain("footer", 200),
     Element("section", {"cookie-banner"}, {}, "", 200),
     Element("section", {}, {"Banner"}, "", 200),
     Element("section", {}, {"modal"}, "", 200),
     Element("section", {}, {"popup"}, "", 200),
     Element("section", {"overlay"}, {}, "", 200)}

HeadingParentKinds ==
    {Element("div", {}, {}, "Welcome", 200),
     Element("div", {"cookie-banner"}, {}, "Accept cookies", 200),
     Element("div", {}, {"Banner"}, "Sale", 200),
     Element("div", {}, {"modal"}, "Sign in", 200),
     Element("div", {}, {"popup"}, "Subscribe", 200),
     Element("div", {"overlay"}, {}, "Loading", 200)}

SegmentDocs ==
    {Doc(ls, hs, b, 0) :
        ls \in SeqsUpTo(LandmarkKinds, MaxLandmarks),
        hs \in SeqsUpTo(HeadingParentKinds, MaxHeadings),
        b \in BOOLEAN}

InitSegment ==
    /\ InitScraper
    /\ playwright_available = FALSE
    /\ fn_pc = "document"
    /\ fn_in \in SegmentDocs
    /\ fn_out = <<>>

Segment ==
    /\ fn_pc = "document"
    /\ fn_out' = ExtractSections(ParseHtmlParser(fn_in))
    /\ fn_pc' = "segmented"
    /\ UNCHANGED <<fn_in, scrape_vars>>

NextSegment == Segment

SpecSegment == InitSegment /\ [][NextSegment]_vars

----------------------------------------------------------------------------
(* The classifier alone: _extract_section_from_element on a drawn element *)

Tags == {"header", "nav", "footer", "section", "article", "main", "div", "body"}

ClassTokens == {"hero", "Hero-Unit", "FAQ", "pricing", "card"}

ClassifyElements == {Element(tag, cls, {}, "", 200) : tag \in Tags, cls \in SUBSET ClassTokens}

InitClassify ==
    /\ InitScraper
    /\ playwright_available = FALSE
    /\ fn_pc = "element"
    /\ fn_in \in ClassifyElements
    /\ fn_out = <<>>

Classify ==
    /\ fn_pc = "element"
    /\ fn_out' = ExtractSectionFromElement(fn_in, 0)
    /\ fn_pc' = "classified"
    /\ UNCHANGED <<fn_in, scrape_vars>>

NextClassify == Classify

SpecClassify == InitClassify /\ [][NextClassify]_vars

----------------------------------------------------------------------------
(* The extractor's caps: _extract_section_from_element on a drawn element   *)
(* whose lists and texts lie below, at and above the caps                   *)

RECURSIVE SumLens(_)
SumLens(ls) == IF ls = <<>> THEN 0 ELSE Head(ls) + SumLens(Tail(ls))

\* n items, the first of one size and the others of another
FirstAndRest(n, a, b) == [i \in 1..n |-> IF i = 1 THEN a ELSE b]

\* the texts of the headings of a region, by length; an empty one is not kept (246)
HeadingLists ==
    {<<>>} \cup
    {FirstAndRest(n, a, 7) : n \in {1, HeadingCap, HeadingCap + Excess},
                             a \in {7, LabelHeadingCap + Excess, LabelCap + Excess}}

\* the texts of the links of a region, by length; an empty one is not kept (272)
LinkLists ==
    {<<>>} \cup
    {FirstAndRest(n, a, b) : n \in {LinkCap, LinkCap + Excess},
                             a \in {1, LinkTextCap, LinkTextCap + Excess},
                             b \in {1, LinkTextCap, LinkTextCap + Excess}}

ItemLists(item, cap) == {FirstAndRest(n, item, item) : n \in {0, cap, cap + Excess}}

\* len(text_content) before the cap and the length of its first seven words
TextSizes ==
    {<<0, 0>>} \cup
    {<<t, w>> \in {15, TextCap, TextCap + Excess} \X {7, LabelCap, LabelCap + Excess} : w <= t}

\* the serialized markup holds every heading, link, image, list and table of
\* the region; the text can be longer than the markup, a nested div being
\* collected once for each of its ancestors (258-262)
MarkupFloor(hs, ls, is, us, ts) == SumLens(hs) + SumLens(ls) + Len(is) + Len(us) + Len(ts)

ContentElements ==
    {[tag |-> "section", cls |-> {}, words |-> {},
      heading |-> IF hs = <<>> THEN "" ELSE "Welcome",
      textLen |-> tw[1], htmlLen |-> h,
      headings |-> hs, firstWords |-> tw[2],
      links |-> ls, images |-> is, lists |-> us, tables |-> ts] :
        hs \in HeadingLists, ls \in LinkLists, is \in ItemLists("img", ImageCap),
        us \in ItemLists("ul", ListCap), ts \in ItemLists("table", TableCap),
        tw \in TextSizes,
        h \in {100, RawCap, RawCap + Excess, 3 * RawCap}}

InitContent ==
    /\ InitScraper
    /\ playwright_available = FALSE
    /\ fn_pc = "element"
    /\ fn_in \in {e \in ContentElements :
                     e.htmlLen >= MarkupFloor(e.headings, e.links, e.images, e.lists, e.tables)}
    /\ fn_out = <<>>

SpecContent == InitContent /\ [][NextClassify]_vars

----------------------------------------------------------------------------
(* Properties *)

Phases(errs) == {errs[i].phase : i \in DOMAIN errs}
Count(errs, phase) == Cardinality({i \in DOMAIN errs : errs[i].phase = phase})
Range(f) == {f[i] : i \in DOMAIN f}

Returned == pc = "returned"
\* the render path handed back a result
Rendered == js_result.kind = "dict"
\* the render path failed: the driver is missing, or an exception left it
RenderFailed == js_result.kind \in {"None", "raised"}
\* control has left _js_scrape
BackInScrape == pc \in {"after_js", "finish", "returned"}
\* failures of the render path itself, outside the interaction driver
TopFailures == {"start", "launch", "new_context", "new_page", "goto", "settle", "content", "close"}
\* failures of single steps of the interaction driver
StepFailures == {"tab_query", "tab_click", "load_more", "load_more_wait", "scroll_eval", "pagination"}

\* C1: the returned envelope holds at least one section; it holds exactly the
\* sentinel (id "empty-0", type "unknown", label "No content found", no text,
\* rawHtml "", truncated false) when neither path produced a section, and no
\* sentinel when one of them did.
C1_AtLeastOneSection ==
    Returned =>
        /\ envelope.kind = "dict"
        /\ Len(envelope.sections) >= 1
        /\ (static_sections = <<>> /\ (~Rendered \/ js_result.sections = <<>>)) =>
              /\ Len(envelope.sections) = 1
              /\ envelope.sections[1].id = <<"empty", 0>>
              /\ envelope.sections[1].type = "unknown"
              /\ envelope.sections[1].label = "No content found"
              /\ envelope.sections[1].text = 0
              /\ envelope.sections[1].rawHtml.len = 0
              /\ envelope.sections[1].truncated = FALSE
        /\ (static_sections # <<>> \/ (Rendered /\ js_result.sections # <<>>)) =>
              \A i \in DOMAIN envelope.sections :
                  /\ envelope.sections[i].id # <<"empty", 0>>
                  /\ envelope.sections[i].label # "No content found"

\* C1 witness: both paths ran and produced nothing, the envelope holds the sentinel
C1_Witness ==
    /\ Returned
    /\ static_html.kind = "html"
    /\ Rendered
    /\ js_result.sections = <<>>
    /\ envelope.sections = <<Sentinel>>

\* C2: scrape never raises and ends only by returning an envelope; a failed
\* static fetch leaves one "fetch" record, a failed render path one "render"
\* record, and after a failed render path the envelope holds the sections of
\* before the escalation, the sentinel when there were none.
C2_NeverFailsOutward ==
    /\ pc # "raised"
    /\ (Returned \/ ENABLED Next)
    /\ Returned =>
        /\ envelope.kind = "dict"
        /\ Count(envelope.errors, "fetch") = (IF static_html.kind = "None" THEN 1 ELSE 0)
        /\ Count(envelope.errors, "render") = (IF RenderFailed THEN 1 ELSE 0)
        /\ RenderFailed =>
              envelope.sections =
                  (IF static_sections = <<>> THEN <<Sentinel>> ELSE static_sections)

\* C2 witness: the static fetch failed, the render path raised, the sentinel is returned
C2_Witness ==
    /\ Returned
    /\ static_html.kind = "None"
    /\ js_result.kind = "raised"
    /\ envelope.sections = <<Sentinel>>
    /\ Phases(envelope.errors) = {"fetch", "render"}

\* C3: the render path is entered exactly when the static fetch failed or the
\* static sections total fewer than 500 characters of text; each of the two is
\* attempted at most once, the static fetch first.
C3_RenderIffNeeded ==
    /\ n_fetch <= 1
    /\ n_js <= 1
    /\ n_js = 1 => n_fetch = 1
    /\ n_js = 0 => /\ js_result.kind = "not_called"
                   /\ browser = "none"
                   /\ playwright = "none"
    /\ pc \notin {"start", "fetched", "js_start"} =>
          (n_js = 1 <=> (static_html.kind = "None" \/ SumText(static_sections) < 500))
    /\ SumText(static_sections) >= 500 => n_js = 0 /\ pc # "js_start"

\* C3 witness: a static page of exactly 500 characters is returned without rendering
C3_Witness ==
    /\ Returned
    /\ SumText(static_sections) = 500
    /\ n_js = 0

\* C4 as stated: whenever the render path returns, the envelope holds the
\* sections of the rendered DOM (the sentinel for none) and the session's log.
C4_RenderOverwrites ==
    (Returned /\ Rendered) =>
        /\ envelope.sections =
              (IF js_result.sections = <<>> THEN <<Sentinel>> ELSE js_result.sections)
        /\ envelope.interactions = interactions

\* C4 amended: whenever the render path returns a result, the envelope's
\* interactions are the session's log; its sections are those of the rendered
\* DOM when there is at least one; when the rendered DOM yields none, the
\* static sections are kept, and the sentinel stands in when there are none.
C4_RenderResultUsed ==
    (Returned /\ Rendered) =>
        /\ js_result.sections = js_sections
        /\ js_result.sections # <<>> => envelope.sections = js_result.sections
        /\ (js_result.sections = <<>> /\ static_sections # <<>>) =>
              envelope.sections = static_sections
        /\ (js_result.sections = <<>> /\ static_sections = <<>>) =>
              envelope.sections = <<Sentinel>>
        /\ envelope.interactions = interactions
        /\ Len(envelope.interactions.pages) >= 1
        /\ envelope.interactions.pages[1] = SeedUrl

\* C4 witness: the rendered DOM yields no section and the static sections are kept
C4_Witness ==
    /\ Returned
    /\ Rendered
    /\ js_result.sections = <<>>
    /\ static_sections # <<>>
    /\ envelope.sections = static_sections

C6_EveryFailureRecorded ==
    /\ (failed \cap StepFailures # {}) =>
          Phases(errors) \cap {"interaction", "scroll"} # {}
    /\ (BackInScrape /\ "tabs" \in attempted /\ failed \cap TopFailures = {}) =>
          /\ attempted = {"tabs", "load_more", "scroll", "content"}
          /\ interactions.scrolls = 3
          /\ Rendered

\* C6 amended: no failure of a single interaction step aborts the render path
\* or leaves a "render" record: the final DOM is still read and extracted.  A
\* failing tab click, load-more query, click or wait, and a failing pagination
\* query, click or wait leave no record and skip no later step; a failing tab
\* query leaves one "interaction" record and skips the load-more step; a
\* failing scroll or height evaluation leaves one "scroll" record and ends
\* the scroll and pagination step.
C6_FailuresContained ==
    /\ Count(errors, "interaction") = (IF "tab_query" \in failed THEN 1 ELSE 0)
    /\ Count(errors, "scroll") = (IF "scroll_eval" \in failed THEN 1 ELSE 0)
    /\ (BackInScrape /\ "tabs" \in attempted) =>
          /\ {"tabs", "scroll", "content"} \subseteq attempted
          /\ ("load_more" \in attempted) <=> ("tab_query" \notin failed)
          /\ "scroll_eval" \notin failed => interactions.scrolls = 3
    /\ (BackInScrape /\ "tabs" \in attempted /\ failed \cap TopFailures = {}) =>
          /\ Rendered
          /\ "render" \notin Phases(errors)

\* C6 witness: a tab click and a pagination click failed, nothing was recorded,
\* and the render path returned its result
C6_Witness ==
    /\ Returned
    /\ failed = {"tab_click", "pagination"}
    /\ Rendered
    /\ envelope.errors = <<>>
    /\ attempted = {"tabs", "load_more", "scroll", "content"}

\* C7: the log holds at most 3 pages, at most 2 clicks (the tab click, then
\* one load-more click), at most 3 scrolls; pages holds no URL twice and holds
\* exactly the visited URLs.
C7_InteractionLogBounds ==
    /\ Len(interactions.pages) <= 3
    /\ interactions.scrolls <= 3
    /\ Len(interactions.clicks) <= 2
    /\ Cardinality({i \in DOMAIN interactions.clicks : interactions.clicks[i] = TabSelector}) <= 1
    /\ Cardinality({i \in DOMAIN interactions.clicks : interactions.clicks[i] # TabSelector}) <= 1
    /\ \A i \in DOMAIN interactions.clicks :
          interactions.clicks[i] = TabSelector => i = 1
    /\ Cardinality(Range(interactions.pages)) = Len(interactions.pages)
    /\ Range(interactions.pages) = visited_urls

\* The part of C7 that the driver keeps: pages, scrolls, and the visited set.
C7_PagesAndScrollsBounded ==
    /\ Len(interactions.pages) <= 3
    /\ interactions.scrolls <= 3
    /\ Cardinality(Range(interactions.pages)) = Len(interactions.pages)
    /\ Range(interactions.pages) = visited_urls
    /\ Cardinality({i \in DOMAIN interactions.clicks : interactions.clicks[i] = TabSelector}) <= 1

\* C11 as stated: in every envelope the ids are pairwise distinct and each is
\* the section's type with its position in the emission order, from 0 without
\* a gap.
C11_IdIsTypeOrdinal ==
    Returned =>
        /\ \A i, j \in DOMAIN envelope.sections :
               envelope.sections[i].id = envelope.sections[j].id => i = j
        /\ \A i \in DOMAIN envelope.sections :
               envelope.sections[i].id = <<envelope.sections[i].type, i - 1>>

\* C11 (amended): in every envelope the ids are pairwise distinct and their
\* ordinals are 0, 1, 2, ... in emission order, a skipped region taking none;
\* the id of every extracted section starts with its type, and the sentinel
\* alone has the id empty-0 with the type unknown.
C11_DenseOrdinals ==
    Returned =>
        /\ \A i, j \in DOMAIN envelope.sections :
               envelope.sections[i].id = envelope.sections[j].id => i = j
        /\ \A i \in DOMAIN envelope.sections : envelope.sections[i].id[2] = i - 1
        /\ \A i \in DOMAIN envelope.sections :
               \/ envelope.sections[i].id[1] = envelope.sections[i].type
               \/ /\ envelope.sections = <<Sentinel>>
                  /\ envelope.sections[i].id = <<"empty", 0>>
                  /\ envelope.sections[i].type = "unknown"

\* C11 witness: the first landmark is skipped as noise and the second one,
\* the only section of the envelope, has ordinal 0
C11_Witness ==
    /\ Returned
    /\ static_html.kind = "html"
    /\ Len(static_html.doc.landmarks) = 2
    /\ IsNoise(static_html.doc.landmarks[1], LandmarkNoise)
    /\ Len(envelope.sections) = 1
    /\ envelope.sections[1].rawHtml.markup = static_html.doc.landmarks[2]
    /\ envelope.sections[1].id = <<"footer", 0>>

----------------------------------------------------------------------------
(* Properties of the segmenter, under SpecSegment *)

Segmented == fn_pc = "segmented"
Regions(ss) == [i \in DOMAIN ss |-> ss[i].rawHtml.markup]
RECURSIVE Keep(_, _)
Keep(regions, words) ==
    IF regions = <<>> THEN <<>>
    ELSE IF IsNoise(Head(regions), words) THEN Keep(Tail(regions), words)
    ELSE <<Head(regions)>> \o Keep(Tail(regions), words)

\* C8: the regions come from the first tier that yields one after exclusion:
\* the landmarks left, else the heading parents left, else the body.
C8_FirstYieldingTier ==
    Segmented =>
        LET landmarks == Keep(fn_in.landmarks, LandmarkNoise)
            parents == Keep(fn_in.headings, HeadingNoise)
        IN  IF landmarks # <<>> THEN Regions(fn_out) = landmarks
            ELSE IF parents # <<>> THEN Regions(fn_out) = parents
            ELSE IF fn_in.hasBody THEN Regions(fn_out) = <<Body(fn_in)>>
            ELSE fn_out = <<>>

\* C9: no section of the landmark tier or the heading tier comes from a region
\* whose markup holds a denylisted word, and every region without one is kept.
C9_NoDenylistedRegion ==
    Segmented =>
        /\ \A i \in DOMAIN fn_out :
              fn_out[i].rawHtml.markup.tag # "body" =>
                  ~IsNoise(fn_out[i].rawHtml.markup, DenyWords)
        /\ fn_in.landmarks # <<>> /\ Keep(fn_in.landmarks, DenyWords) # <<>> =>
              Regions(fn_out) = Keep(fn_in.landmarks, DenyWords)
        /\ fn_in.landmarks = <<>> /\ Keep(fn_in.headings, DenyWords) # <<>> =>
              Regions(fn_out) = Keep(fn_in.headings, DenyWords)

\* the sections of one call of the segmenter carry <type, position from 0>
SegmenterOrdinalsDense ==
    Segmented => \A i \in DOMAIN fn_out : fn_out[i].id = <<fn_out[i].type, i - 1>>

----------------------------------------------------------------------------
(* Properties of the classifier, under SpecClassify *)

Classified == fn_pc = "classified"
HasHero == fn_in.cls \cap {"hero", "Hero-Unit"} # {}
HasFaq == "FAQ" \in fn_in.cls
HasPricing == "pricing" \in fn_in.cls
TagDefault ==
    IF fn_in.tag = "header" \/ fn_in.tag = "nav" THEN "nav"
    ELSE IF fn_in.tag = "footer" THEN "footer"
    ELSE IF fn_in.tag = "section" \/ fn_in.tag = "article" \/ fn_in.tag = "main" THEN "section"
    ELSE "unknown"

\* C10 as stated: the tag default, overridden by the class signals with the
\* last match of hero, faq, pricing winning.
C10_LastSignalWins ==
    Classified =>
        /\ HasPricing => fn_out.type = "pricing"
        /\ (HasFaq /\ ~HasPricing) => fn_out.type = "faq"
        /\ (HasHero /\ ~HasFaq /\ ~HasPricing) => fn_out.type = "hero"
        /\ (~HasHero /\ ~HasFaq /\ ~HasPricing) => fn_out.type = TagDefault

\* C10 amended: the tag default, overridden by the first class signal that
\* matches in the order hero, faq, pricing: hero with faq gives "hero", and
\* pricing gives "pricing" only without hero and faq.
C10_FirstSignalWins ==
    Classified =>
        /\ HasHero => fn_out.type = "hero"
        /\ (~HasHero /\ HasFaq) => fn_out.type = "faq"
        /\ (~HasHero /\ ~HasFaq /\ HasPricing) => fn_out.type = "pricing"
        /\ (~HasHero /\ ~HasFaq /\ ~HasPricing) => fn_out.type = TagDefault
        /\ fn_out.id = <<fn_out.type, 0>>

\* C10 witness: a class with hero, faq and pricing is classified "hero"
C10_Witness ==
    /\ Classified
    /\ HasHero /\ HasFaq /\ HasPricing
    /\ fn_out.type = "hero"

----------------------------------------------------------------------------
(* Properties of the extractor's caps, under SpecContent *)

\* C12: every section of the extractor has at most 10 headings, 50 links, 20
\* images, 10 lists and 5 tables, a text of at most 5000 characters, a label of
\* at most 100, link texts of at most 100 each and a rawHtml of at most 5000
\* characters plus the marker; truncated is true exactly when the markup of
\* the region was longer than 5000, and rawHtml is the whole markup otherwise.
C12_CapsRespected ==
    Classified =>
        /\ Len(fn_out.content.headings) <= 10
        /\ Len(fn_out.content.links) <= 50
        /\ Len(fn_out.content.images) <= 20
        /\ Len(fn_out.content.lists) <= 10
        /\ Len(fn_out.content.tables) <= 5
        /\ fn_out.text <= 5000
        /\ fn_out.labelLen <= 100
        /\ \A i \in DOMAIN fn_out.content.links : fn_out.content.links[i] <= 100
        /\ fn_out.truncated <=> fn_in.htmlLen > 5000
        /\ fn_out.truncated => fn_out.rawHtml.len = 5000 + 3
        /\ ~fn_out.truncated =>
               /\ fn_out.rawHtml.len = fn_in.htmlLen
               /\ fn_out.rawHtml.markup = fn_in

\* C12 witness: a region above every cap at once, and its section at the caps
C12_Witness ==
    /\ Classified
    /\ Len(fn_in.headings) > 10 /\ Len(fn_in.links) > 50 /\ Len(fn_in.images) > 20
    /\ Len(fn_in.lists) > 10 /\ Len(fn_in.tables) > 5
    /\ fn_in.textLen > 5000 /\ fn_in.htmlLen > 5000
    /\ \A i \in DOMAIN fn_in.links : fn_in.links[i] > 100
    /\ Len(fn_out.content.headings) = 10 /\ Len(fn_out.content.links) = 50
    /\ Len(fn_out.content.images) = 20 /\ Len(fn_out.content.lists) = 10
    /\ Len(fn_out.content.tables) = 5
    /\ fn_out.text = 5000
    /\ \A i \in DOMAIN fn_out.content.links : fn_out.content.links[i] = 100
    /\ fn_out.truncated

====
